---- MODULE Spec2Model ----
(***************************************************************************)
(* Batch analysis of Instagram handles.                                    *)
(*   route.ts      POST /api/analyze: validate, trim, dedupe, fan out one   *)
(*                 fetchInstagramMetrics call per handle, join on           *)
(*                 Promise.allSettled, partition into data / errors.        *)
(*   dashboard.tsx the client: parse the textarea, call the route, replace  *)
(*                 rows / errors / lastUpdatedAt with the outcome.          *)
(* Strings are TLA+ strings; a character is a string of length one.         *)
(***************************************************************************)
EXTENDS Integers, Sequences, FiniteSets, TLC

\* ------------------------------------------------------------------ bounds

\* Longest handles array a request body carries.
MaxHandles == 3

\* Most analyze requests in flight at once.
MaxInFlight == 2

\* Most records in rows when the sorted view and the exports are checked.
MaxRows == 3

\* ----------------------------------------------------------------- strings

CharAt(s, i) == SubSeq(s, i, i)

\* The characters String.prototype.trim removes and /\s/ matches (those used here).
WhiteSpace == {" ", "\n"}

RECURSIVE TrimStart(_)
TrimStart(s) ==
    IF Len(s) > 0 /\ CharAt(s, 1) \in WhiteSpace
    THEN TrimStart(SubSeq(s, 2, Len(s)))
    ELSE s

RECURSIVE TrimEnd(_)
TrimEnd(s) ==
    IF Len(s) > 0 /\ CharAt(s, Len(s)) \in WhiteSpace
    THEN TrimEnd(SubSeq(s, 1, Len(s) - 1))
    ELSE s

\* String.prototype.trim
Trim(s) == TrimEnd(TrimStart(s))

\* ------------------------------------------------------- route.ts: values

\* A parsed JSON value found in payload.handles: a string or null.
JsonString(s) == [type |-> "string", text |-> s]
JsonNull == [type |-> "null", text |-> ""]

\* String(value ?? "")
StringOf(value) == IF value.type = "null" THEN "" ELSE value.text

\* payload.handles: an array, or absent, or some other JSON value.
HandlesArray(items) == [kind |-> "array", items |-> items]
HandlesMissing == [kind |-> "missing", items |-> <<>>]
HandlesNotArray == [kind |-> "other", items |-> <<>>]

\* !Array.isArray(payload.handles) || payload.handles.length === 0
RejectsNoArray(handles) == handles.kind # "array"
RejectsPayload(handles) == RejectsNoArray(handles) \/ Len(handles.items) = 0

\* .map((value) => String(value ?? "").trim())
MapNoTrim(items) == [i \in 1..Len(items) |-> StringOf(items[i])]
MapTrim(items) == [i \in 1..Len(items) |-> Trim(StringOf(items[i]))]

\* .filter((value) => value.length > 0)
IsNonEmpty(value) == Len(value) > 0
FilterNonEmpty(values) == SelectSeq(values, IsNonEmpty)

\* Array.from(new Set(values)): insertion order, first occurrence kept.
KeepDuplicates(values) == values
RECURSIVE ArrayFromSet(_)
ArrayFromSet(values) ==
    IF values = <<>> THEN <<>>
    ELSE LET init == ArrayFromSet(SubSeq(values, 1, Len(values) - 1))
             last == values[Len(values)]
         IN IF \E i \in 1..Len(init) : init[i] = last THEN init ELSE Append(init, last)

\* const uniqueHandles = Array.from(new Set(payload.handles.map(...).filter(...)))
UniqueHandles(items) == ArrayFromSet(FilterNonEmpty(MapTrim(items)))

\* --------------------------------------------- the Resolver (lib/socialblade)

\* The handle a resolved record carries: the account name without a leading @,
\* in lower case.
StripAt(handle) ==
    IF Len(handle) > 0 /\ CharAt(handle, 1) = "@" THEN SubSeq(handle, 2, Len(handle)) ELSE handle

LowerChar(c) == IF c = "A" THEN "a" ELSE c

RECURSIVE ToLower(_)
ToLower(s) == IF Len(s) = 0 THEN "" ELSE LowerChar(CharAt(s, 1)) \o ToLower(SubSeq(s, 2, Len(s)))

CanonicalHandle(handle) == ToLower(StripAt(handle))

\* The InstagramMetrics record fetchInstagramMetrics(handle) resolves to.
MetricsFor(handle) == [handle |-> CanonicalHandle(handle)]

\* -------------------------------------- route.ts: PromiseSettledResult values

NoRecord == [handle |-> ""]
NoReason == [kind |-> "none", hasMessage |-> FALSE, message |-> ""]

\* result.reason is typed any and cast to Error unchecked. A rejection is
\*   a SocialbladeError            (instanceof SocialbladeError, message a string)
\*   any other Error               (message a string)
\*   a value that is no Error but has properties (a string, a number, {}):
\*                                 its message property is undefined
\*   null or undefined             reading .message throws a TypeError
ProviderError(message) == [kind |-> "SocialbladeError", hasMessage |-> TRUE, message |-> message]
GenericError(message) == [kind |-> "Error", hasMessage |-> TRUE, message |-> message]
NonErrorValue == [kind |-> "value", hasMessage |-> FALSE, message |-> ""]
NullishValue == [kind |-> "nullish", hasMessage |-> FALSE, message |-> ""]

RejectionReasons ==
    { ProviderError("Account not found"), ProviderError(""),
      GenericError("socket hang up"), GenericError(""),
      NonErrorValue, NullishValue }

PendingResult == [status |-> "pending", value |-> NoRecord, reason |-> NoReason]
Fulfilled(value) == [status |-> "fulfilled", value |-> value, reason |-> NoReason]
Rejected(reason) == [status |-> "rejected", value |-> NoRecord, reason |-> reason]

\* Every way the call fetchInstagramMetrics(handle) can settle.
SettledResults(handle) ==
    {Fulfilled(MetricsFor(handle))} \cup {Rejected(reason) : reason \in RejectionReasons}

\* ------------------------------------------- route.ts: results.forEach(...)

FallbackMessage == "An unexpected error occurred."

\* reason.message || "An unexpected error occurred."
MessageOrFallback(reason) ==
    IF reason.hasMessage /\ reason.message # "" THEN reason.message ELSE FallbackMessage

\* The message pushed for a rejected result: the provider's message as it is for
\* a SocialbladeError, the message or the fallback otherwise.
ErrorMessage(reason) ==
    IF reason.kind = "SocialbladeError" THEN reason.message ELSE MessageOrFallback(reason)

\* reason.message on null or undefined throws.
ReadingMessageThrows(reason) == reason.kind = "nullish"

ErrorEntry(handle, message) == [handle |-> handle, message |-> message]

EmptyTracks == [data |-> <<>>, errors |-> <<>>, threw |-> FALSE]

\* One call of the forEach callback: (result, index) with originalHandle =
\* uniqueHandles[index]; acc is the response built so far.
PushFulfilledOnly(acc, result, originalHandle) ==
    IF result.status = "fulfilled"
    THEN [acc EXCEPT !.data = Append(@, result.value)]
    ELSE acc
PushResult(acc, result, originalHandle) ==
    IF result.status = "fulfilled"
    THEN [acc EXCEPT !.data = Append(@, result.value)]
    ELSE IF ReadingMessageThrows(result.reason)
         THEN [acc EXCEPT !.threw = TRUE]
         ELSE [acc EXCEPT !.errors =
                   Append(@, ErrorEntry(originalHandle, ErrorMessage(result.reason)))]

\* results.forEach over the first n results, in index order; an exception in the
\* callback ends the loop.
RECURSIVE ForEach(_, _, _)
ForEach(results, handles, n) ==
    IF n = 0 THEN EmptyTracks
    ELSE LET acc == ForEach(results, handles, n - 1)
         IN IF acc.threw THEN acc ELSE PushResult(acc, results[n], handles[n])

\* What POST ends with: a NextResponse.json(...) or an exception.
NoOutcome == [outcome |-> "none", status |-> 0, message |-> "", data |-> <<>>, errors |-> <<>>]
Threw == [outcome |-> "threw", status |-> 0, message |-> "", data |-> <<>>, errors |-> <<>>]
BadRequest(message) ==
    [outcome |-> "response", status |-> 400, message |-> message, data |-> <<>>, errors |-> <<>>]
Ok(data, errors) ==
    [outcome |-> "response", status |-> 200, message |-> "", data |-> data, errors |-> errors]

NoHandleMessage == "Provide at least one Instagram handle."
NoValidHandleMessage == "Provide at least one valid Instagram handle."

\* The lines after the await: build the response from the settled results; an
\* exception in the loop leaves POST by throwing.
Aggregate(results, handles) ==
    LET acc == ForEach(results, handles, Len(results))
    IN IF acc.threw THEN Threw ELSE Ok(acc.data, acc.errors)

\* ------------------------------------------------- route.ts: POST, as steps

VARIABLES
    routePc,        \* "idle" | "awaiting" (at await Promise.allSettled) | "done"
    payload,        \* payload.handles of the request being served
    uniqueHandles,  \* const uniqueHandles
    calls,          \* the arguments of the fetchInstagramMetrics calls made, in call order
    promises,       \* the promise each call returned: pending, fulfilled or rejected
    outOfOrder,     \* history: some call settled before a call dispatched earlier
    results,        \* the PromiseSettledResult slots Promise.allSettled fills
    outcome         \* what POST ended with

routeVars == <<routePc, payload, uniqueHandles, calls, promises, outOfOrder, results, outcome>>

\* dashboard.tsx: the state of the Dashboard component.
VARIABLES
    handlesInput,   \* useState: the textarea's text
    rows,           \* useState: the records shown
    errors,         \* useState: the errors shown
    sortKey,        \* useState: the active sort column
    sortOrder,      \* useState: "asc" | "desc"
    lastUpdatedAt,  \* useState: a Date, or null
    isReloading,    \* useTransition: the analyze action is pending
    inFlight,       \* the analyze requests that have not completed, in the order they left
    lastWrite       \* history: which handler last set rows and errors, with what, and
                    \* whether rows were shown then

dashVars == <<handlesInput, rows, errors, sortKey, sortOrder, lastUpdatedAt, isReloading,
              inFlight, lastWrite>>

\* The browser: the file the last export saved.
VARIABLES saved

fileVars == <<saved>>

vars == <<routeVars, dashVars, fileVars>>

\* The values a request body's handles array holds.
HandleValues ==
    { JsonString("a"), JsonString(" a "), JsonString("@a"),
      JsonString("@doesnotexist123456"), JsonString(" \n"), JsonNull }

RECURSIVE SeqsUpTo(_, _)
SeqsUpTo(S, n) ==
    IF n = 0 THEN {<<>>}
    ELSE LET shorter == SeqsUpTo(S, n - 1)
         IN shorter \cup {Append(q, x) : q \in {t \in shorter : Len(t) = n - 1}, x \in S}

\* The request bodies: handles absent, not an array, or an array of up to
\* MaxHandles values.
Payloads ==
    {HandlesMissing, HandlesNotArray} \cup {HandlesArray(items) : items \in SeqsUpTo(HandleValues, MaxHandles)}

RouteInit ==
    /\ routePc = "idle"
    /\ payload = HandlesMissing
    /\ uniqueHandles = <<>>
    /\ calls = <<>>
    /\ promises = <<>>
    /\ outOfOrder = FALSE
    /\ results = <<>>
    /\ outcome = NoOutcome

\* uniqueHandles.map((handle) => fetchInstagramMetrics(handle)): one call per
\* element, in order, all made before the await.
Dispatch(handles) == handles

\* POST from its first line to the await (or to an early return).
POSTStart(handles) ==
    /\ routePc = "idle"
    /\ payload' = handles
    /\ IF RejectsPayload(handles)
       THEN /\ outcome' = BadRequest(NoHandleMessage)
            /\ routePc' = "done"
            /\ UNCHANGED <<uniqueHandles, calls, promises, results>>
       ELSE LET unique == UniqueHandles(handles.items)
            IN IF Len(unique) = 0
               THEN /\ outcome' = BadRequest(NoValidHandleMessage)
                    /\ routePc' = "done"
                    /\ UNCHANGED <<uniqueHandles, calls, promises, results>>
               ELSE /\ uniqueHandles' = unique
                    /\ calls' = Dispatch(unique)
                    /\ promises' = [i \in 1..Len(Dispatch(unique)) |-> PendingResult]
                    /\ results' = [i \in 1..Len(Dispatch(unique)) |-> PendingResult]
                    /\ routePc' = "awaiting"
                    /\ UNCHANGED outcome
    /\ UNCHANGED outOfOrder
    /\ UNCHANGED <<dashVars, fileVars>>

PendingCalls == {i \in 1..Len(promises) : promises[i].status = "pending"}

\* Promise.allSettled stores the result of the promise at position index in
\* slot index, whenever it settles.
SlotByCompletion(index, settledBefore) == settledBefore + 1
ResultSlot(index, settledBefore) == index

\* The call made for uniqueHandles[index] settles.
Settle(index) ==
    /\ routePc = "awaiting"
    /\ index \in PendingCalls
    /\ \E result \in SettledResults(calls[index]) :
           /\ promises' = [promises EXCEPT ![index] = result]
           /\ results' = [results EXCEPT
                  ![ResultSlot(index, Len(promises) - Cardinality(PendingCalls))] = result]
    /\ outOfOrder' = (outOfOrder \/ \E earlier \in PendingCalls : earlier < index)
    /\ UNCHANGED <<routePc, payload, uniqueHandles, calls, outcome>>
    /\ UNCHANGED <<dashVars, fileVars>>

\* The promise of Promise.allSettled resolves once every call has settled.
AllSettled(pending, n) == pending = {}

\* POST from the await to its return.
POSTFinish ==
    /\ routePc = "awaiting"
    /\ AllSettled(PendingCalls, Len(promises))
    /\ outcome' = Aggregate(results, uniqueHandles)
    /\ routePc' = "done"
    /\ UNCHANGED <<payload, uniqueHandles, calls, promises, outOfOrder, results>>
    /\ UNCHANGED <<dashVars, fileVars>>

RouteNext ==
    \/ \E handles \in Payloads : POSTStart(handles)
    \/ \E index \in 1..Len(promises) : Settle(index)
    \/ POSTFinish

\* ------------------------------------------------ dashboard.tsx: the client

\* /[\s,]+/
IsSeparator(c) == c \in WhiteSpace \cup {","}

\* text.split(/[\s,]+/): the pieces between maximal runs of separators; a run at
\* either end leaves an empty piece there. rest is what is left to scan, piece
\* the piece being read, inRun whether the last character was a separator.
RECURSIVE SplitScan(_, _, _, _)
SplitScan(rest, piece, pieces, inRun) ==
    IF Len(rest) = 0 THEN Append(pieces, piece)
    ELSE LET c == CharAt(rest, 1)
             tail == SubSeq(rest, 2, Len(rest))
         IN IF IsSeparator(c)
            THEN SplitScan(tail, "", IF inRun THEN pieces ELSE Append(pieces, piece), TRUE)
            ELSE SplitScan(tail, piece \o c, pieces, FALSE)

Split(text) == SplitScan(text, "", <<>>, FALSE)

\* const parsedHandles = useMemo(...)
ParsedHandles(text) ==
    FilterNonEmpty([i \in 1..Len(Split(text)) |-> Trim(Split(text)[i])])

\* body: JSON.stringify({ handles: parsedHandles }), as the route parses it.
RequestBody(handles) == HandlesArray([i \in 1..Len(handles) |-> JsonString(handles[i])])

\* Every array of settled results the calls for these handles can end with.
RECURSIVE SettledArrays(_)
SettledArrays(handles) ==
    IF Len(handles) = 0 THEN {<<>>}
    ELSE {Append(init, last) :
              init \in SettledArrays(SubSeq(handles, 1, Len(handles) - 1)),
              last \in SettledResults(handles[Len(handles)])}

\* Every outcome POST can end with for a request body.
RouteOutcomes(body) ==
    IF RejectsPayload(body) THEN {BadRequest(NoHandleMessage)}
    ELSE LET unique == UniqueHandles(body.items)
         IN IF Len(unique) = 0 THEN {BadRequest(NoValidHandleMessage)}
            ELSE {Aggregate(settled, unique) : settled \in SettledArrays(Dispatch(unique))}

\* What await fetch(...) and response.json() give the client:
\*   fetch rejects (no connection): a TypeError;
\*   a response with a status, whose body parses as JSON or does not; a parsed
\*   body has a message or not, and data and errors.
FetchRejects == [kind |-> "rejected", status |-> 0, parses |-> FALSE, hasMessage |-> FALSE,
                 message |-> "Failed to fetch", data |-> <<>>, errors |-> <<>>]
NoFetch == [kind |-> "none", status |-> 0, parses |-> FALSE, hasMessage |-> FALSE,
            message |-> "", data |-> <<>>, errors |-> <<>>]
HttpJson(status, hasMessage, message, data, errorList) ==
    [kind |-> "response", status |-> status, parses |-> TRUE, hasMessage |-> hasMessage,
     message |-> message, data |-> data, errors |-> errorList]
HttpNotJson(status) ==
    [kind |-> "response", status |-> status, parses |-> FALSE, hasMessage |-> FALSE,
     message |-> "", data |-> <<>>, errors |-> <<>>]

\* The response the framework sends for what POST ended with: its JSON for a
\* returned NextResponse, a 500 without a JSON body when POST threw.
HttpOf(ended) ==
    IF ended.outcome = "threw" THEN HttpNotJson(500)
    ELSE HttpJson(ended.status, ended.status = 400, ended.message, ended.data, ended.errors)

\* What the fetch of a request can give: a response of the route, a rejected
\* fetch, or a response made on the way (a gateway), with or without a message.
FetchOutcomes(handles) ==
    {HttpOf(ended) : ended \in RouteOutcomes(RequestBody(handles))}
        \cup {FetchRejects, HttpJson(502, TRUE, "Bad gateway", <<>>, <<>>),
              HttpJson(502, FALSE, "", <<>>, <<>>)}

\* response.ok
IsOk(response) == response.status >= 200 /\ response.status <= 299

NullDate == "null"
NewDate == "Date"

\* The message of the SyntaxError response.json() throws on a body that is no JSON.
JsonParseMessage == "Unexpected end of JSON input"
UnableMessage == "Unable to fetch metrics."

\* errorPayload.message ?? "Unable to fetch metrics."
MessageOrUnable(response) == IF response.hasMessage THEN response.message ELSE UnableMessage

Shown(newRows, newErrors, newLastUpdatedAt) ==
    [rows |-> newRows, errors |-> newErrors, lastUpdatedAt |-> newLastUpdatedAt]

\* The catch block: setErrors([{ handle: "request", message }]); setRows([]);
\* setLastUpdatedAt(null).
CatchKeepsRows(shown, message) ==
    Shown(shown.rows, Append(shown.errors, ErrorEntry("request", message)), NullDate)
CatchBlock(shown, message) ==
    Shown(<<>>, <<ErrorEntry("request", message)>>, NullDate)

\* The body of the async callback of handleAnalyze once the fetch has settled:
\* what is shown afterwards, given what was shown.
AfterFetchMerging(shown, fetched) ==
    IF fetched.kind = "response" /\ IsOk(fetched) /\ fetched.parses
    THEN Shown(shown.rows \o fetched.data, shown.errors \o fetched.errors, NewDate)
    ELSE CatchBlock(shown, fetched.message)
AfterFetch(shown, fetched) ==
    IF fetched.kind = "rejected" THEN CatchBlock(shown, fetched.message)
    ELSE IF ~IsOk(fetched)
         THEN IF fetched.parses
              THEN CatchBlock(shown, MessageOrUnable(fetched))
              ELSE CatchBlock(shown, JsonParseMessage)
         ELSE IF fetched.parses
              THEN Shown(fetched.data, fetched.errors, NewDate)
              ELSE CatchBlock(shown, JsonParseMessage)

\* How the callback ended, for lastWrite.
EndedBy(fetched) ==
    IF fetched.kind = "rejected" THEN "fetch threw"
    ELSE IF ~IsOk(fetched) THEN (IF fetched.parses THEN "not ok" ELSE "json threw")
         ELSE IF fetched.parses THEN "ok" ELSE "json threw"

\* const columns
ColumnKeys ==
    <<"displayName", "handle", "followers", "averageViews", "engagementRate", "category",
      "location", "averageLikes">>
IsNumeric(key) == key \in {"followers", "averageViews", "engagementRate", "averageLikes"}

\* ------------------------------------------- dashboard.tsx: records and sort

\* The value of a field of a record (InstagramMetrics): a number, a string, or
\* null for an absent one. engagementRate is a real number: num holds it in
\* eighths, which are exact in binary floating point.
Null == [type |-> "null", num |-> 0, text |-> ""]
Num(n) == [type |-> "number", num |-> n, text |-> ""]
Str(s) == [type |-> "string", num |-> 0, text |-> s]

IsNull(value) == value.type = "null"
IsNumber(value) == value.type = "number"

Metrics(displayName, handle, followers, averageViews, engagementRate, category, location, averageLikes) ==
    [displayName |-> displayName, handle |-> handle, followers |-> followers,
     averageViews |-> averageViews, engagementRate |-> engagementRate,
     category |-> category, location |-> location, averageLikes |-> averageLikes]

\* The records payload.data can carry: values present and absent in every
\* optional column, equal values in every column, and texts with the characters
\* the export escapes.
MetricsRecords ==
    { Metrics(Str("a"), Str("a"), Num(1000000), Num(1000), Num(12), Str("b"), Str("a"),
              Num(999)),
      Metrics(Str("A"), Str("b"), Num(1000000), Null, Num(1), Str("b"), Null, Num(0)),
      Metrics(Str("a,b"), Str("ab"), Null, Num(5), Null, Null, Str("a\nb"), Null),
      Metrics(Str("a \"b\""), Str("a"), Num(0), Num(1000), Num(12), Str("a"), Str("a, b"),
              Num(999)),
      Metrics(Str("b"), Str("A"), Num(12345), Num(5), Num(20), Str("A"), Str("a"), Num(1234)) }

\* extractSortValue(row, key)
ExtractSortValue(row, key) ==
    CASE key = "displayName" -> row.displayName
      [] key = "handle" -> row.handle
      [] key = "followers" -> row.followers
      [] key = "averageViews" -> row.averageViews
      [] key = "engagementRate" -> row.engagementRate
      [] key = "category" -> row.category
      [] key = "location" -> row.location
      [] key = "averageLikes" -> row.averageLikes
      [] OTHER -> Null

DigitChar(d) == CharAt("0123456789", d + 1)

\* String(n) of a non-negative integer
RECURSIVE Digits(_)
Digits(n) == IF n < 10 THEN DigitChar(n) ELSE Digits(n \div 10) \o DigitChar(n % 10)

\* String(value) of a number or a string. A rate is an integer and a fraction
\* of eighths: 12 eighths read "1.5", 1 eighth "0.125".
EighthsFraction == <<"", ".125", ".25", ".375", ".5", ".625", ".75", ".875">>
StringValue(value, key) ==
    IF IsNumber(value)
    THEN IF key = "engagementRate"
         THEN Digits(value.num \div 8) \o EighthsFraction[(value.num % 8) + 1]
         ELSE Digits(value.num)
    ELSE value.text

\* String.prototype.localeCompare, default locale: the strings compare by their
\* characters' primary weights (white space, then punctuation, then digits,
\* then letters, a letter's cases alike), then by case, lower case first.
CollationOrder == "\n ,\".0123456789ab"
BaseLetter(c) == IF c = "A" THEN "a" ELSE IF c = "B" THEN "b" ELSE c
Primary(c) == CHOOSE i \in 1..Len(CollationOrder) : CharAt(CollationOrder, i) = BaseLetter(c)

RECURSIVE ComparePrimary(_, _)
ComparePrimary(s, t) ==
    IF Len(s) = 0 /\ Len(t) = 0 THEN 0
    ELSE IF Len(s) = 0 THEN -1
    ELSE IF Len(t) = 0 THEN 1
    ELSE IF Primary(CharAt(s, 1)) < Primary(CharAt(t, 1)) THEN -1
    ELSE IF Primary(CharAt(s, 1)) > Primary(CharAt(t, 1)) THEN 1
    ELSE ComparePrimary(SubSeq(s, 2, Len(s)), SubSeq(t, 2, Len(t)))

\* Strings of equal primary weights have equal lengths.
RECURSIVE CompareCase(_, _)
CompareCase(s, t) ==
    IF Len(s) = 0 THEN 0
    ELSE IF CharAt(s, 1) = CharAt(t, 1)
         THEN CompareCase(SubSeq(s, 2, Len(s)), SubSeq(t, 2, Len(t)))
         ELSE IF CharAt(s, 1) = BaseLetter(CharAt(s, 1)) THEN -1 ELSE 1

LocaleCompare(s, t) ==
    IF ComparePrimary(s, t) # 0 THEN ComparePrimary(s, t) ELSE CompareCase(s, t)

\* The compare function given to dataset.sort.
ComparatorNullFirst(a, b, key, order) ==
    LET aValue == ExtractSortValue(a, key)
        bValue == ExtractSortValue(b, key)
    IN IF IsNull(aValue) /\ IsNull(bValue) THEN 0
       ELSE IF IsNull(aValue) THEN -1
       ELSE IF IsNull(bValue) THEN 1
       ELSE IF IsNumber(aValue) /\ IsNumber(bValue)
            THEN IF order = "asc" THEN aValue.num - bValue.num ELSE bValue.num - aValue.num
            ELSE IF order = "asc"
                 THEN LocaleCompare(StringValue(aValue, key), StringValue(bValue, key))
                 ELSE LocaleCompare(StringValue(bValue, key), StringValue(aValue, key))
ComparatorTextAscending(a, b, key, order) ==
    LET aValue == ExtractSortValue(a, key)
        bValue == ExtractSortValue(b, key)
    IN IF IsNull(aValue) /\ IsNull(bValue) THEN 0
       ELSE IF IsNull(aValue) THEN (IF order = "asc" THEN 1 ELSE -1)
       ELSE IF IsNull(bValue) THEN (IF order = "asc" THEN -1 ELSE 1)
       ELSE IF IsNumber(aValue) /\ IsNumber(bValue)
            THEN IF order = "asc" THEN aValue.num - bValue.num ELSE bValue.num - aValue.num
            ELSE LocaleCompare(StringValue(aValue, key), StringValue(bValue, key))
Comparator(a, b, key, order) ==
    LET aValue == ExtractSortValue(a, key)
        bValue == ExtractSortValue(b, key)
    IN IF IsNull(aValue) /\ IsNull(bValue) THEN 0
       ELSE IF IsNull(aValue) THEN (IF order = "asc" THEN 1 ELSE -1)
       ELSE IF IsNull(bValue) THEN (IF order = "asc" THEN -1 ELSE 1)
       ELSE IF IsNumber(aValue) /\ IsNumber(bValue)
            THEN IF order = "asc" THEN aValue.num - bValue.num ELSE bValue.num - aValue.num
            ELSE IF order = "asc"
                 THEN LocaleCompare(StringValue(aValue, key), StringValue(bValue, key))
                 ELSE LocaleCompare(StringValue(bValue, key), StringValue(aValue, key))

\* Array.prototype.sort is stable: the sorted array is the one insertion in
\* array order builds, a record going after those that do not compare greater.
RECURSIVE InsertBeforeEqual(_, _, _, _)
InsertBeforeEqual(sorted, row, key, order) ==
    IF Len(sorted) = 0 THEN <<row>>
    ELSE IF Comparator(sorted[Len(sorted)], row, key, order) < 0
         THEN Append(sorted, row)
         ELSE Append(InsertBeforeEqual(SubSeq(sorted, 1, Len(sorted) - 1), row, key, order),
                     sorted[Len(sorted)])
RECURSIVE InsertSorted(_, _, _, _)
InsertSorted(sorted, row, key, order) ==
    IF Len(sorted) = 0 THEN <<row>>
    ELSE IF Comparator(sorted[Len(sorted)], row, key, order) <= 0
         THEN Append(sorted, row)
         ELSE Append(InsertSorted(SubSeq(sorted, 1, Len(sorted) - 1), row, key, order),
                     sorted[Len(sorted)])

RECURSIVE ArraySort(_, _, _)
ArraySort(dataset, key, order) ==
    IF Len(dataset) = 0 THEN <<>>
    ELSE InsertSorted(ArraySort(SubSeq(dataset, 1, Len(dataset) - 1), key, order),
                      dataset[Len(dataset)], key, order)

\* const sortedRows = useMemo(...): a sorted copy of rows.
SortedRows(dataset, key, order) == ArraySort(dataset, key, order)

\* --------------------------------------------------- dashboard.tsx: exports

\* columns.map((column) => column.label)
ColumnLabels ==
    <<"Name", "Handle", "Followers", "Avg. Views", "Eng. Rate", "Category", "Location",
      "Avg. Likes">>

ThreeDigits(n) == DigitChar(n \div 100) \o DigitChar((n \div 10) % 10) \o DigitChar(n % 10)

\* standardNumber.format(n) of a non-negative integer: Intl.NumberFormat("en-US",
\* { maximumFractionDigits: 0 }) keeps the locale's grouping, digits in threes
\* with commas between.
RECURSIVE StandardNumber(_)
StandardNumber(n) ==
    IF n < 1000 THEN Digits(n) ELSE StandardNumber(n \div 1000) \o "," \o ThreeDigits(n % 1000)

\* value.toFixed(2) of a rate held in eighths: the nearest number of hundredths,
\* the larger of two equally near.
ToFixed2(eighths) ==
    LET n == (25 * eighths + 1) \div 2
    IN Digits(n \div 100) \o "." \o DigitChar((n \div 10) % 10) \o DigitChar(n % 10)

\* formatCellForExport(row, column)
FormatCellForExport(row, key) ==
    LET value == row[key]
    IN IF IsNull(value) THEN ""
       ELSE CASE key = "handle" -> "@" \o StringValue(value, key)
              [] key \in {"followers", "averageViews", "averageLikes"} ->
                     IF IsNumber(value) THEN StandardNumber(value.num)
                     ELSE StringValue(value, key)
              [] key = "engagementRate" ->
                     IF IsNumber(value) THEN ToFixed2(value.num) ELSE StringValue(value, key)
              [] OTHER -> StringValue(value, key)

\* /[",\n]/.test(value)
NeedsEscape(value) == \E i \in 1..Len(value) : CharAt(value, i) \in {"\"", ",", "\n"}

\* value.replace(/"/g, '""')
RECURSIVE DoubleQuotes(_)
DoubleQuotes(value) ==
    IF Len(value) = 0 THEN ""
    ELSE (IF CharAt(value, 1) = "\"" THEN "\"\"" ELSE CharAt(value, 1))
             \o DoubleQuotes(SubSeq(value, 2, Len(value)))

\* needsEscape ? `"${value.replace(/"/g, '""')}"` : value
WrapOnly(value) == IF NeedsEscape(value) THEN "\"" \o value \o "\"" ELSE value
EscapeField(value) ==
    IF NeedsEscape(value) THEN "\"" \o DoubleQuotes(value) \o "\"" ELSE value

\* Array.prototype.join
RECURSIVE Join(_, _)
Join(strings, separator) ==
    IF Len(strings) = 0 THEN ""
    ELSE IF Len(strings) = 1 THEN strings[1]
    ELSE Join(SubSeq(strings, 1, Len(strings) - 1), separator) \o separator
             \o strings[Len(strings)]

\* columns.map(...).join(",") for one row
CsvRecord(row) ==
    Join([c \in 1..Len(ColumnKeys) |-> EscapeField(FormatCellForExport(row, ColumnKeys[c]))],
         ",")

\* const csv = [headers.join(","), ...records].join("\n")
Csv(dataset) ==
    Join(<<Join(ColumnLabels, ",")>> \o [i \in 1..Len(dataset) |-> CsvRecord(dataset[i])],
         "\n")

\* value ?? ""
OrEmpty(value) == IF IsNull(value) THEN Str("") ELSE value

\* formatSummary(row): the cells of the sheet's row, under their headers.
FormatSummary(row) ==
    << <<"Name", row.displayName>>,
       <<"Handle", Str("@" \o StringValue(row.handle, "handle"))>>,
       <<"Followers", OrEmpty(row.followers)>>,
       <<"Avg. Views", OrEmpty(row.averageViews)>>,
       <<"Avg. Likes", OrEmpty(row.averageLikes)>>,
       <<"Engagement Rate (%)", OrEmpty(row.engagementRate)>>,
       <<"Category", row.category>>,
       <<"Location", row.location>> >>

\* rows.map((row) => formatSummary(row))
Sheet(dataset) == [i \in 1..Len(dataset) |-> FormatSummary(dataset[i])]

\* The file an export saves.
NoFile == [kind |-> "none", text |-> "", sheet |-> <<>>]
CsvFile(text) == [kind |-> "csv", text |-> text, sheet |-> <<>>]
XlsxFile(sheet) == [kind |-> "xlsx", text |-> "", sheet |-> sheet]

\* The texts typed into the textarea.
InputTexts == {"@instagram\n@cristiano", " ,\n", "a, a", "request", "a request"}

DashInit ==
    /\ handlesInput = "@instagram\n@cristiano"
    /\ rows = <<>>
    /\ errors = <<>>
    /\ sortKey = "followers"
    /\ sortOrder = "desc"
    /\ lastUpdatedAt = NullDate
    /\ isReloading = FALSE
    /\ inFlight = <<>>
    /\ lastWrite = [by |-> "init", replacedRows |-> FALSE, stale |-> FALSE, fetched |-> NoFetch]

\* onChange of the textarea
SetHandlesInput(text) ==
    /\ handlesInput' = text
    /\ UNCHANGED <<rows, errors, sortKey, sortOrder, lastUpdatedAt, isReloading, inFlight,
                   lastWrite>>
    /\ UNCHANGED <<routeVars, fileVars>>

\* disabled = parsedHandles.length === 0 || isReloading
Disabled == Len(ParsedHandles(handlesInput)) = 0 \/ isReloading

\* A request in flight: the handles it carries, and (history) whether a request
\* that left after it has completed already, and whether Clear Results was
\* clicked since it left.
Request(handles) == [handles |-> handles, overtaken |-> FALSE, cleared |-> FALSE]

\* onSubmit: handleAnalyze up to await fetch(...): the transition starts and the
\* request leaves with the handles parsed from the text.
HandleAnalyze ==
    /\ ~Disabled
    /\ Len(inFlight) < MaxInFlight
    /\ isReloading' = TRUE
    /\ inFlight' = Append(inFlight, Request(ParsedHandles(handlesInput)))
    /\ UNCHANGED <<handlesInput, rows, errors, sortKey, sortOrder, lastUpdatedAt, lastWrite>>
    /\ UNCHANGED <<routeVars, fileVars>>

\* The requests left in flight once the k-th has completed; those that left
\* before it are overtaken.
WithoutRequest(requests, k) ==
    [i \in 1..(Len(requests) - 1) |->
        IF i < k THEN [requests[i] EXCEPT !.overtaken = TRUE] ELSE requests[i + 1]]

\* The fetch of the k-th request in flight settles and the callback runs to its
\* end; with it the transition ends when no other callback is running.
FetchSettles(k) ==
    /\ k \in 1..Len(inFlight)
    /\ \E fetched \in FetchOutcomes(inFlight[k].handles) :
           LET after == AfterFetch(Shown(rows, errors, lastUpdatedAt), fetched)
           IN /\ rows' = after.rows
              /\ errors' = after.errors
              /\ lastUpdatedAt' = after.lastUpdatedAt
              /\ lastWrite' = [by |-> EndedBy(fetched), replacedRows |-> Len(rows) > 0,
                               stale |-> inFlight[k].overtaken, fetched |-> fetched]
    /\ inFlight' = WithoutRequest(inFlight, k)
    /\ isReloading' = (isReloading /\ Len(inFlight) > 1)
    /\ UNCHANGED <<handlesInput, sortKey, sortOrder>>
    /\ UNCHANGED <<routeVars, fileVars>>

\* isReloading is the pending flag of useTransition, and the callback given to
\* startReload is async. A React that awaits the callback keeps the flag set
\* until the callback has run to its end (FetchSettles); one that does not
\* clears it once the synchronous part has run, with the request in flight.
TransitionEnds ==
    /\ isReloading
    /\ inFlight # <<>>
    /\ isReloading' = FALSE
    /\ UNCHANGED <<handlesInput, rows, errors, sortKey, sortOrder, lastUpdatedAt, inFlight,
                   lastWrite>>
    /\ UNCHANGED <<routeVars, fileVars>>

\* onClick of Clear Results
ClearKeepsDate ==
    /\ rows' = <<>>
    /\ errors' = <<>>
    /\ lastWrite' = [by |-> "clear", replacedRows |-> Len(rows) > 0, stale |-> FALSE,
                     fetched |-> NoFetch]
    /\ inFlight' = [i \in 1..Len(inFlight) |-> [inFlight[i] EXCEPT !.cleared = TRUE]]
    /\ UNCHANGED <<handlesInput, sortKey, sortOrder, isReloading, lastUpdatedAt>>
    /\ UNCHANGED <<routeVars, fileVars>>
ClearResults ==
    /\ rows' = <<>>
    /\ errors' = <<>>
    /\ lastUpdatedAt' = NullDate
    /\ lastWrite' = [by |-> "clear", replacedRows |-> Len(rows) > 0, stale |-> FALSE,
                     fetched |-> NoFetch]
    /\ inFlight' = [i \in 1..Len(inFlight) |-> [inFlight[i] EXCEPT !.cleared = TRUE]]
    /\ UNCHANGED <<handlesInput, sortKey, sortOrder, isReloading>>
    /\ UNCHANGED <<routeVars, fileVars>>

\* handleSort(column)
HandleSortKeepsOrder(key) ==
    /\ IF sortKey = key
       THEN /\ sortOrder' = (IF sortOrder = "asc" THEN "desc" ELSE "asc")
            /\ UNCHANGED sortKey
       ELSE /\ sortKey' = key
            /\ UNCHANGED sortOrder
    /\ UNCHANGED <<handlesInput, rows, errors, lastUpdatedAt, isReloading, inFlight, lastWrite>>
    /\ UNCHANGED <<routeVars, fileVars>>
HandleSort(key) ==
    /\ IF sortKey = key
       THEN /\ sortOrder' = (IF sortOrder = "asc" THEN "desc" ELSE "asc")
            /\ UNCHANGED sortKey
       ELSE /\ sortKey' = key
            /\ sortOrder' = (IF IsNumeric(key) THEN "desc" ELSE "asc")
    /\ UNCHANGED <<handlesInput, rows, errors, lastUpdatedAt, isReloading, inFlight, lastWrite>>
    /\ UNCHANGED <<routeVars, fileVars>>

DashNext ==
    \/ \E text \in InputTexts : SetHandlesInput(text)
    \/ HandleAnalyze
    \/ \E k \in 1..Len(inFlight) : FetchSettles(k)
    \/ ClearResults
    \/ \E i \in 1..Len(ColumnKeys) : HandleSort(ColumnKeys[i])

\* The texts typed while requests overlap.
InFlightTexts == {" ,\n", "request"}

\* The dashboard without header clicks, under either React.
InFlightNext ==
    \/ \E text \in InFlightTexts : SetHandlesInput(text)
    \/ HandleAnalyze
    \/ \E k \in 1..Len(inFlight) : FetchSettles(k)
    \/ TransitionEnds
    \/ ClearResults

\* exportCsv()
ExportCsvOfSorted ==
    /\ Len(rows) > 0
    /\ saved' = CsvFile(Csv(SortedRows(rows, sortKey, sortOrder)))
    /\ UNCHANGED <<routeVars, dashVars>>
ExportCsv ==
    /\ Len(rows) > 0
    /\ saved' = CsvFile(Csv(rows))
    /\ UNCHANGED <<routeVars, dashVars>>

\* exportExcel()
ExportExcel ==
    /\ Len(rows) > 0
    /\ saved' = XlsxFile(Sheet(rows))
    /\ UNCHANGED <<routeVars, dashVars>>

\* The dashboard showing the records of a response, or none yet.
ViewInit ==
    /\ handlesInput = "@instagram\n@cristiano"
    /\ rows \in SeqsUpTo(MetricsRecords, MaxRows)
    /\ errors = <<>>
    /\ sortKey = "followers"
    /\ sortOrder = "desc"
    /\ lastUpdatedAt = (IF Len(rows) = 0 THEN NullDate ELSE NewDate)
    /\ isReloading = FALSE
    /\ inFlight = <<>>
    /\ lastWrite = IF Len(rows) = 0
                   THEN [by |-> "init", replacedRows |-> FALSE, stale |-> FALSE,
                         fetched |-> NoFetch]
                   ELSE [by |-> "ok", replacedRows |-> FALSE, stale |-> FALSE,
                         fetched |-> HttpJson(200, FALSE, "", rows, <<>>)]

\* Header clicks and exports over the records shown.
ViewNext ==
    \/ \E i \in 1..Len(ColumnKeys) : HandleSort(ColumnKeys[i])
    \/ ExportCsv
    \/ ExportExcel

Init == RouteInit /\ DashInit /\ saved = NoFile

InitView == RouteInit /\ ViewInit /\ saved = NoFile

Spec == Init /\ [][RouteNext]_vars

SpecDashboard == Init /\ [][DashNext]_vars

SpecInFlight == Init /\ [][InFlightNext]_vars

SpecView == InitView /\ [][ViewNext]_vars

\* ------------------------------------------------------ claims on the route

\* The distinct trimmed non-empty tokens of the request's handles.
DistinctTokens == {Trim(StringOf(payload.items[i])) : i \in 1..Len(payload.items)} \ {""}

Returned200 == outcome.outcome = "response" /\ outcome.status = 200

IsFulfilled(result) == result.status = "fulfilled"
IsRejected(result) == result.status = "rejected"

\* The positions of the entries of errors that carry handle h.
ErrorsFor(h) == {j \in 1..Len(outcome.errors) : outcome.errors[j].handle = h}

\* The positions of the entries of data that are the record the call for h resolved to.
DataFor(h) ==
    {j \in 1..Len(outcome.data) :
        \E i \in 1..Len(calls) :
            calls[i] = h /\ IsFulfilled(promises[i]) /\ outcome.data[j] = promises[i].value}

\* C1: in every HTTP 200 response |data| + |errors| is the number of distinct
\* trimmed non-empty input handles, and each such handle is accounted for in
\* exactly one track: one errors entry and no record, or a record and no entry.
C1_Partition ==
    Returned200 =>
        /\ Len(outcome.data) + Len(outcome.errors) = Cardinality(DistinctTokens)
        /\ Len(outcome.data) = Cardinality({i \in 1..Len(promises) : IsFulfilled(promises[i])})
        /\ \A h \in DistinctTokens :
               \/ Cardinality(ErrorsFor(h)) = 1 /\ DataFor(h) = {}
               \/ ErrorsFor(h) = {} /\ DataFor(h) # {}

\* A 200 response with both tracks filled, for a list that held a duplicate.
C1_Witness ==
    /\ Returned200
    /\ Len(outcome.data) >= 1
    /\ Len(outcome.errors) >= 1
    /\ Len(payload.items) > Cardinality(DistinctTokens)

\* C2: the number of Resolver calls of one POST is the number of distinct
\* trimmed non-empty tokens of the list, and no handle is dispatched twice.
C2_Dedup ==
    routePc # "idle" =>
        /\ Len(calls) = Cardinality(DistinctTokens)
        /\ \A i, j \in 1..Len(calls) : calls[i] = calls[j] => i = j
        /\ {calls[i] : i \in 1..Len(calls)} = DistinctTokens

\* A list of three values, the first and the last the same token, two calls made.
C2_Witness ==
    /\ routePc # "idle"
    /\ Len(payload.items) = 3
    /\ Trim(StringOf(payload.items[1])) = Trim(StringOf(payload.items[3]))
    /\ StringOf(payload.items[1]) # StringOf(payload.items[3])
    /\ Len(calls) = 2

\* C3: all calls of a batch are issued before any is awaited, POST ends only
\* after every call has settled, and once calls were dispatched a failure of one
\* of them neither aborts the batch nor drops another handle's record from data.
C3_AllSettle ==
    /\ routePc = "awaiting" => calls = uniqueHandles /\ Len(promises) = Len(calls)
    /\ (routePc = "done" /\ Len(calls) > 0) =>
           /\ PendingCalls = {}
           /\ Returned200
           /\ \A i \in 1..Len(promises) :
                  IsFulfilled(promises[i]) =>
                      \E j \in 1..Len(outcome.data) : outcome.data[j] = promises[i].value

\* No token is left once every value is trimmed.
NoValidHandle == \A i \in 1..Len(payload.items) : Trim(StringOf(payload.items[i])) = ""

\* C4: a request whose handles is missing, not an array or empty, and a request
\* whose handles leave no valid handle after trimming, is answered with HTTP 400
\* and a non-empty message, and no Resolver call is made.
C4_EmptyRejected ==
    (routePc # "idle" /\ (payload.kind # "array" \/ NoValidHandle)) =>
        /\ routePc = "done"
        /\ outcome.outcome = "response"
        /\ outcome.status = 400
        /\ outcome.message # ""
        /\ calls = <<>>
        /\ promises = <<>>

\* A non-empty array of blank values was rejected, with the second message.
C4_Witness ==
    /\ routePc = "done"
    /\ payload.kind = "array"
    /\ Len(payload.items) >= 2
    /\ NoValidHandle
    /\ outcome = BadRequest(NoValidHandleMessage)

\* C5: once a valid handle exists POST never throws: whatever a call was
\* rejected with, the failure is an entry of errors and a response is returned.
C5_NeverThrows ==
    (routePc = "done" /\ Len(calls) > 0) =>
        /\ outcome.outcome = "response"
        /\ \A i \in 1..Len(promises) :
               IsRejected(promises[i]) => Cardinality(ErrorsFor(calls[i])) = 1

\* C6: a batch whose every call fails returns HTTP 200 with data empty and one
\* errors entry per distinct handle; for ["@doesnotexist123456"] the single
\* entry has handle "doesnotexist123456" and a non-empty message.
C6_AllFailing ==
    (/\ routePc = "done"
     /\ Len(calls) > 0
     /\ \A i \in 1..Len(promises) : IsRejected(promises[i])) =>
        /\ Returned200
        /\ outcome.data = <<>>
        /\ Len(outcome.errors) = Cardinality(DistinctTokens)
        /\ payload.items = <<JsonString("@doesnotexist123456")>> =>
               /\ outcome.errors[1].handle = "doesnotexist123456"
               /\ outcome.errors[1].message # ""

\* The records of the fulfilled calls, and the handles of the rejected calls, of
\* the first n calls in dispatch order.
RECURSIVE FulfilledValues(_)
FulfilledValues(n) ==
    IF n = 0 THEN <<>>
    ELSE IF IsFulfilled(promises[n])
         THEN Append(FulfilledValues(n - 1), promises[n].value)
         ELSE FulfilledValues(n - 1)

RECURSIVE RejectedHandles(_)
RejectedHandles(n) ==
    IF n = 0 THEN <<>>
    ELSE IF IsRejected(promises[n])
         THEN Append(RejectedHandles(n - 1), calls[n])
         ELSE RejectedHandles(n - 1)

\* C7: whatever the order in which the calls settled, data holds the records
\* of the fulfilled calls in dispatch order, and errors has one entry per
\* rejected call in dispatch order, each with the handle that call was made for.
C7_DispatchOrder ==
    Returned200 =>
        /\ outcome.data = FulfilledValues(Len(promises))
        /\ [j \in 1..Len(outcome.errors) |-> outcome.errors[j].handle]
               = RejectedHandles(Len(promises))

\* A 200 response after a later call settled before an earlier one, with two
\* records and an error.
C7_Witness ==
    /\ Returned200
    /\ outOfOrder
    /\ Len(outcome.data) + Len(outcome.errors) = 3
    /\ Len(outcome.data) >= 1
    /\ Len(outcome.errors) >= 1

\* The rejection carries no message: an empty one, or none at all.
CarriesNoMessage(reason) == ~reason.hasMessage \/ reason.message = ""

\* C8: every entry of errors has a non-empty message; a failure that carries
\* no message, a provider error as well as a generic one, gets the fallback.
C8_NonEmptyMessages ==
    outcome.outcome = "response" =>
        /\ \A j \in 1..Len(outcome.errors) : outcome.errors[j].message # ""
        /\ \A i \in 1..Len(promises) :
               (IsRejected(promises[i]) /\ CarriesNoMessage(promises[i].reason)) =>
                   \A j \in ErrorsFor(calls[i]) : outcome.errors[j].message = FallbackMessage

\* -------------------------------------------------- claims on the dashboard

\* The ways the analyze call fails as a whole.
RequestFailures == {"fetch threw", "not ok", "json threw"}

\* C9: an entry of the dashboard's errors whose handle is "request" denotes a
\* request-level failure (the call returned non-OK or threw), never the failure
\* of one handle reported in an HTTP 200 response.
C9_SentinelIsRequestLevel ==
    \A j \in 1..Len(errors) :
        errors[j].handle = "request" => lastWrite.by \in RequestFailures

\* C10: after an analyze call that failed as a whole the dashboard holds no
\* rows, exactly one error, with handle "request", and a null lastUpdatedAt.
C10_FailureReplacesAll ==
    lastWrite.by \in RequestFailures =>
        /\ rows = <<>>
        /\ Len(errors) = 1
        /\ errors[1].handle = "request"
        /\ lastUpdatedAt = NullDate

\* A non-OK response arrived while rows of an earlier result were shown.
C10_Witness ==
    /\ lastWrite.by = "not ok"
    /\ lastWrite.replacedRows
    /\ rows = <<>>
    /\ Len(errors) = 1

\* C11: under every interleaving of analyze actions, response arrivals in any
\* order and Clear Results, the rows and the errors shown are those of the one
\* response applied last (its data and errors, or no rows and the single
\* request-level error when it failed), or both empty after a clear.
C11_NoMerge ==
    /\ lastWrite.by = "ok" =>
           rows = lastWrite.fetched.data /\ errors = lastWrite.fetched.errors
    /\ lastWrite.by \in RequestFailures =>
           /\ rows = <<>>
           /\ Len(errors) = 1
           /\ errors[1].handle = "request"
    /\ lastWrite.by \in {"init", "clear"} => rows = <<>> /\ errors = <<>>

\* The response of an overtaken request arrived after a newer one's rows were
\* shown, and now its own rows and errors are shown.
C11_Witness ==
    /\ lastWrite.by = "ok"
    /\ lastWrite.stale
    /\ lastWrite.replacedRows
    /\ Len(rows) = 1
    /\ Len(errors) = 1

\* ------------------------------------------------ claims on the sorted view

Reverse(sequence) == [i \in 1..Len(sequence) |-> sequence[Len(sequence) + 1 - i]]

\* The value a record holds in the active sort column is absent.
AbsentIn(row, key) == row[key].type = "null"

\* C12: in the sorted view every record whose value in the sort column is absent
\* stands after every record with a value there when the direction is ascending
\* and before every such record when it is descending, and two records both
\* absent there compare as equal.
C12_AbsentPlacement ==
    LET sorted == SortedRows(rows, sortKey, sortOrder)
    IN /\ \A i, j \in 1..Len(sorted) :
              (AbsentIn(sorted[i], sortKey) /\ ~AbsentIn(sorted[j], sortKey)) =>
                  (IF sortOrder = "asc" THEN i > j ELSE i < j)
       /\ \A i, j \in 1..Len(rows) :
              (AbsentIn(rows[i], sortKey) /\ AbsentIn(rows[j], sortKey)) =>
                  Comparator(rows[i], rows[j], sortKey, sortOrder) = 0

\* Three records sorted ascending by a text column, the first of rows the only
\* one absent there: it is shown last.
C12_Witness ==
    /\ Len(rows) = 3
    /\ sortKey = "category"
    /\ sortOrder = "asc"
    /\ AbsentIn(rows[1], sortKey)
    /\ ~AbsentIn(rows[2], sortKey)
    /\ ~AbsentIn(rows[3], sortKey)
    /\ SortedRows(rows, sortKey, sortOrder)[3] = rows[1]

\* No record of rows has an absent value in the column.
NoneAbsent(key) == \A i \in 1..Len(rows) : ~AbsentIn(rows[i], key)

\* No two records of rows compare as equal on the column.
NoEqualKeys(key) ==
    \A i, j \in 1..Len(rows) : i # j => Comparator(rows[i], rows[j], key, "asc") # 0

\* C13 as stated: for a column in which no record has an absent value, records
\* that share a key value included, the ascending order reversed is the
\* descending order.
C13_SymmetryWithTies ==
    NoneAbsent(sortKey) =>
        Reverse(SortedRows(rows, sortKey, "asc")) = SortedRows(rows, sortKey, "desc")

\* C13 amended: for a column in which no record has an absent value and no two
\* records compare as equal, the ascending order reversed is the descending
\* order.
C13_Symmetry ==
    (NoneAbsent(sortKey) /\ NoEqualKeys(sortKey)) =>
        Reverse(SortedRows(rows, sortKey, "asc")) = SortedRows(rows, sortKey, "desc")

\* Three records with three different names, in neither order yet.
C13_Witness ==
    /\ Len(rows) = 3
    /\ sortKey = "displayName"
    /\ NoneAbsent(sortKey)
    /\ NoEqualKeys(sortKey)
    /\ SortedRows(rows, sortKey, "asc") # rows
    /\ SortedRows(rows, sortKey, "desc") # rows

\* C14: sorting the sorted view again by the same column and direction gives
\* the same sequence.
C14_Idempotent ==
    LET sorted == SortedRows(rows, sortKey, sortOrder)
    IN SortedRows(sorted, sortKey, sortOrder) = sorted

\* Three records out of order by category, two of them with equal categories.
C14_Witness ==
    /\ Len(rows) = 3
    /\ sortKey = "category"
    /\ sortOrder = "asc"
    /\ SortedRows(rows, sortKey, sortOrder) # rows
    /\ \E i, j \in 1..3 :
           /\ i # j
           /\ rows[i] # rows[j]
           /\ Comparator(rows[i], rows[j], sortKey, sortOrder) = 0

\* ---------------------------------------------- claims on the dashboard, II

\* column.isNumeric ? "desc" : "asc", read off the columns table.
DefaultOrder(key) ==
    IF key \in {"followers", "averageViews", "engagementRate", "averageLikes"} THEN "desc"
    ELSE "asc"

Flipped(order) == IF order = "asc" THEN "desc" ELSE "asc"

\* C15: the SortSpec starts as (followers, descending); a click on the header of
\* the active column keeps the column and flips the direction, a click on
\* another header makes that column active, descending if it is numeric and
\* ascending if not; and a step that changes anything but the SortSpec (an
\* analyze, a response arriving, Clear Results, typing) leaves the SortSpec as
\* it is.
C15_SortSpecTransitions ==
    /\ sortKey = "followers" /\ sortOrder = "desc"
    /\ [][ /\ \A i \in 1..Len(ColumnKeys) :
                  HandleSort(ColumnKeys[i]) =>
                      IF ColumnKeys[i] = sortKey
                      THEN sortKey' = sortKey /\ sortOrder' = Flipped(sortOrder)
                      ELSE sortKey' = ColumnKeys[i] /\ sortOrder' = DefaultOrder(ColumnKeys[i])
           /\ (<<handlesInput, rows, errors, lastUpdatedAt, isReloading, inFlight,
                 lastWrite>>' # <<handlesInput, rows, errors, lastUpdatedAt, isReloading,
                                  inFlight, lastWrite>>)
                  => UNCHANGED <<sortKey, sortOrder>> ]_vars

\* Records are shown and the Name column, clicked twice, is active descending.
C15_Witness ==
    /\ sortKey = "displayName"
    /\ sortOrder = "desc"
    /\ Len(rows) > 0
    /\ lastWrite.by = "ok"

\* ---------------------------------------------------- claims on the exports

\* The first position from i on that holds one of the characters, or the
\* position after the text's end.
NextOf(text, i, characters) ==
    IF \E j \in i..Len(text) : CharAt(text, j) \in characters
    THEN CHOOSE j \in i..Len(text) :
             /\ CharAt(text, j) \in characters
             /\ \A q \in i..(j - 1) : CharAt(text, q) \notin characters
    ELSE Len(text) + 1

\* Inside a quoted field, from j on: the double quote that closes it, which is
\* the first one that does not start a doubled double quote.
RECURSIVE ClosingQuote(_, _)
ClosingQuote(text, j) ==
    LET q == NextOf(text, j, {"\""})
    IN IF q < Len(text) /\ CharAt(text, q + 1) = "\"" THEN ClosingQuote(text, q + 2) ELSE q

\* The content of a quoted field, a doubled double quote standing for one.
RECURSIVE Unescape(_)
Unescape(s) ==
    IF Len(s) = 0 THEN ""
    ELSE IF Len(s) >= 2 /\ SubSeq(s, 1, 2) = "\"\""
         THEN "\"" \o Unescape(SubSeq(s, 3, Len(s)))
         ELSE CharAt(s, 1) \o Unescape(SubSeq(s, 2, Len(s)))

\* A text read by the standard CSV rules, a field starting at i: a field that
\* starts with a double quote runs to the closing one, any other to the next
\* comma or newline; a comma starts the next field, a newline the next record.
RECURSIVE ParseFrom(_, _, _, _)
ParseFrom(text, i, record, table) ==
    LET quoted == i <= Len(text) /\ CharAt(text, i) = "\""
        next == IF quoted THEN ClosingQuote(text, i + 1) + 1 ELSE NextOf(text, i, {",", "\n"})
        field == IF quoted THEN Unescape(SubSeq(text, i + 1, next - 2))
                 ELSE SubSeq(text, i, next - 1)
    IN IF next <= Len(text) /\ CharAt(text, next) = ","
       THEN ParseFrom(text, next + 1, Append(record, field), table)
       ELSE IF next <= Len(text) /\ CharAt(text, next) = "\n"
            THEN ParseFrom(text, next + 1, <<>>, Append(table, Append(record, field)))
            ELSE Append(table, Append(record, field))

ParseCsv(text) == ParseFrom(text, 1, <<>>, <<>>)

\* The saved text reads as a header row and one row of eight fields per record.
ReadsAsTable(table) ==
    /\ Len(table) = Len(rows) + 1
    /\ \A i \in 1..Len(table) : Len(table[i]) = Len(ColumnKeys)

IsDigits(s) == Len(s) > 0 /\ \A i \in 1..Len(s) : \E d \in 0..9 : CharAt(s, i) = DigitChar(d)

\* Digits, a point, two digits.
IsFixedTwo(s) ==
    /\ Len(s) >= 4
    /\ IsDigits(SubSeq(s, 1, Len(s) - 3))
    /\ CharAt(s, Len(s) - 2) = "."
    /\ IsDigits(SubSeq(s, Len(s) - 1, Len(s)))

\* C16: in the saved delimited text every present followers, averageViews and
\* averageLikes value reads as its plain digits with no grouping separator,
\* every present engagementRate as digits, a point and two digits, the handle
\* as @ and the handle, and every absent value as an empty field.
C16_ExportFormats ==
    saved.kind = "csv" =>
        LET table == ParseCsv(saved.text)
        IN /\ ReadsAsTable(table)
           /\ \A i \in 1..Len(rows) : \A c \in 1..Len(ColumnKeys) :
                  LET key == ColumnKeys[c]
                      cell == table[i + 1][c]
                  IN IF rows[i][key].type = "null" THEN cell = ""
                     ELSE /\ key \in {"followers", "averageViews", "averageLikes"} =>
                                 IsDigits(cell)
                          /\ key = "engagementRate" => IsFixedTwo(cell)
                          /\ key = "handle" => cell = "@" \o rows[i].handle.text

\* The text holds a comma, a double quote or a newline.
HasSpecial(s) == \E i \in 1..Len(s) : CharAt(s, i) = "," \/ CharAt(s, i) = "\"" \/ CharAt(s, i) = "\n"

\* C17: the saved delimited text reads back, by the standard CSV rules, as the
\* header row followed by one row per record of rows, each of one field per
\* column that equals the column's formatted value; and a formatted value is
\* written changed (wrapped in double quotes) exactly when it holds a comma, a
\* double quote or a newline.
C17_CsvLossless ==
    saved.kind = "csv" =>
        LET table == ParseCsv(saved.text)
        IN /\ ReadsAsTable(table)
           /\ table[1] = ColumnLabels
           /\ \A i \in 1..Len(rows) : \A c \in 1..Len(ColumnKeys) :
                  LET value == FormatCellForExport(rows[i], ColumnKeys[c])
                  IN /\ table[i + 1][c] = value
                     /\ (EscapeField(value) # value) <=> HasSpecial(value)
                     /\ HasSpecial(value) =>
                            /\ CharAt(EscapeField(value), 1) = "\""
                            /\ CharAt(EscapeField(value), Len(EscapeField(value))) = "\""

\* Three records exported, with a double quote in a name, a newline in a
\* location and a comma in a count.
C17_Witness ==
    /\ saved.kind = "csv"
    /\ Len(rows) = 3
    /\ rows[1].displayName.text = "a \"b\""
    /\ rows[2].location.text = "a\nb"
    /\ rows[3].followers.num = 1000000

\* The two sequences hold the same records, each as many times.
IsPermutation(s, t) ==
    /\ Len(s) = Len(t)
    /\ \A i \in 1..Len(s) :
           Cardinality({j \in 1..Len(s) : s[j] = s[i]}) =
               Cardinality({j \in 1..Len(t) : t[j] = s[i]})

\* C18: the sorted view is a permutation of rows; a step that changes the sort
\* column or direction leaves rows as it is; and a step that saves a file
\* leaves rows, errors, the SortSpec and lastUpdatedAt as they are and writes
\* the records in the order of rows, whatever the SortSpec.
C18_ViewAndExportsFrame ==
    /\ [](IsPermutation(SortedRows(rows, sortKey, sortOrder), rows))
    /\ [][ /\ (sortKey' # sortKey \/ sortOrder' # sortOrder) => rows' = rows
           /\ saved' # saved =>
                  /\ UNCHANGED <<rows, errors, sortKey, sortOrder, lastUpdatedAt>>
                  /\ saved'.kind = "csv" =>
                         LET table == ParseCsv(saved'.text)
                         IN /\ Len(table) = Len(rows) + 1
                            /\ \A i \in 1..Len(rows) :
                                   table[i + 1] =
                                       [c \in 1..Len(ColumnKeys) |->
                                           FormatCellForExport(rows[i], ColumnKeys[c])]
                  /\ saved'.kind = "xlsx" =>
                         /\ Len(saved'.sheet) = Len(rows)
                         /\ \A i \in 1..Len(rows) :
                                /\ saved'.sheet[i][1] = <<"Name", rows[i].displayName>>
                                /\ saved'.sheet[i][3] = <<"Followers", OrEmpty(rows[i].followers)>>
         ]_vars

\* Three records shown in another order than that of rows, by a column clicked,
\* and exported.
C18_Witness ==
    /\ Len(rows) = 3
    /\ sortKey = "displayName"
    /\ SortedRows(rows, sortKey, sortOrder) # rows
    /\ saved.kind = "csv"

\* ------------------------------------------------- claims on the route, II

\* C19: in every HTTP 200 response no two records of data carry the same
\* handle, whatever the spellings of the handles in the request, those that
\* differ by a leading @ or by letter case included.
C19_NoDuplicateKeys ==
    Returned200 =>
        \A i, j \in 1..Len(outcome.data) :
            outcome.data[i].handle = outcome.data[j].handle => i = j

\* ---------------------------------------------- claims on the dashboard, III

\* Nothing is shown.
Cleared == rows = <<>> /\ errors = <<>> /\ lastUpdatedAt = NullDate

\* lastUpdatedAt is a date only while what is shown was set from an HTTP 200
\* response.
DateOnlyFromOk ==
    lastUpdatedAt # NullDate =>
        /\ lastWrite.by = "ok"
        /\ lastWrite.fetched.status = 200
        /\ rows = lastWrite.fetched.data
        /\ errors = lastWrite.fetched.errors

\* C20 as stated: once Clear Results was clicked nothing is shown until the
\* user starts a new analyze action, so the first step that shows something
\* again finds a request that left after the clear, also when a request was
\* in flight at the clear; and lastUpdatedAt is a date only while what is shown
\* was set from an HTTP 200 response.
C20_ClearedUntilAnalyze ==
    /\ [](DateOnlyFromOk)
    /\ [](lastWrite.by = "clear" => Cleared)
    /\ [][ (lastWrite.by = "clear" /\ lastWrite'.by # "clear") =>
               \E k \in 1..Len(inFlight) : ~inFlight[k].cleared ]_vars

\* C20 amended: once Clear Results was clicked nothing is shown until the
\* response of an analyze request is applied, be it of a request that left
\* after the clear or of one in flight at the clear; and lastUpdatedAt is a date
\* only while what is shown was set from an HTTP 200 response.
C20_ClearedUntilResponse ==
    /\ [](DateOnlyFromOk)
    /\ [](lastWrite.by = "clear" => Cleared)
    /\ [][ (lastWrite.by = "clear" /\ lastWrite'.by # "clear") =>
               /\ Len(inFlight') = Len(inFlight) - 1
               /\ lastWrite'.by \in {"ok"} \cup RequestFailures ]_vars

\* Clear Results was clicked with a request in flight, and nothing is shown.
C20_Witness ==
    /\ lastWrite.by = "clear"
    /\ lastWrite.replacedRows
    /\ Len(inFlight) > 0
    /\ inFlight[1].cleared
    /\ Cleared

====
